---- MODULE Spec2Model ----
(***************************************************************************)
(* The request handlers of the labour-law assistant: the six versions of   *)
(* exports.handler (four in netlify/functions/ask.js, two more in          *)
(* unnamed/part_000 and unnamed/part_001) and the Case Store they write.   *)
(*                                                                         *)
(* A handler is an async function: it runs synchronously up to its next    *)
(* await, so the model has one action for the invocation (method check,    *)
(* body parse, question check, first provider call issued) and one action  *)
(* per awaited call returning (the result is consumed, the code up to the  *)
(* next await runs, the next call is issued or the response is returned).  *)
(***************************************************************************)
EXTENDS Naturals, Sequences, FiniteSets, TLC

\* ------------------------------------------------------------------ bounds
MaxRequests == 3    \* requests received in one behaviour
MaxHistory == 1     \* turns in a request's history
NumSlots == 2       \* handler invocations in flight at once (SpecConc)

\* --------------------------------------------------------------- JS values
\* A JavaScript/JSON value is a tagged record; text is a sequence of tokens,
\* the token " " standing for white space.
Undefined == [t |-> "undefined"]
Null == [t |-> "null"]
False == [t |-> "false"]
Str(s) == [t |-> "string", v |-> s]
Arr(a) == [t |-> "array", v |-> a]
Id(n) == [t |-> "id", v |-> n]

\* JavaScript truthiness: undefined, null, false and "" are falsy.
Truthy(x) ==
    CASE x.t = "string" -> x.v # <<>>
      [] x.t = "array" -> TRUE
      [] x.t = "id" -> TRUE
      [] OTHER -> FALSE

\* String.prototype.trim
RECURSIVE TrimLeft(_)
TrimLeft(s) == IF s # <<>> /\ Head(s) = " " THEN TrimLeft(Tail(s)) ELSE s
RECURSIVE TrimRight(_)
TrimRight(s) ==
    IF s # <<>> /\ s[Len(s)] = " " THEN TrimRight(SubSeq(s, 1, Len(s) - 1)) ELSE s
Trim(s) == TrimRight(TrimLeft(s))

\* `${a} ${b}`
Interpolate(a, b) == a \o <<" ">> \o b

\* a || b
OrElse(a, b) == IF Truthy(a) THEN a ELSE b

\* ---------------------------------------------------------------- handlers
Variants == {"ask_v1", "ask_v2", "ask_v3", "part_000", "part_001", "ask_case"}

\* Which optional stages a handler version has.
HasHistory(v) == v \in {"part_000", "part_001", "ask_case"}
HasExpander(v) == v \in {"ask_v3", "part_000", "part_001"}
JsonAnswer(v) == v \in {"part_000", "part_001", "ask_case"}
TracksCase(v) == v = "ask_case"

\* hybrid_search parameters
MatchCount(v) ==
    CASE v = "ask_v1" -> 5
      [] v \in {"ask_v2", "ask_v3"} -> 15
      [] OTHER -> 10
FullTextWeight == 1
SemanticWeight == 2
RrfK == 50

\* ------------------------------------------------------------------ inputs
Methods == {"POST", "GET"}

QuestionText == <<" ", "fired">>
QuestionValues == {Undefined, Str(<<>>), Str(QuestionText)}

Turn == [role |-> "user", content |-> <<"my", "manager">>]
RECURSIVE Turns(_)
Turns(n) == IF n = 0 THEN <<>> ELSE Append(Turns(n - 1), Turn)
HistoryValues == {Undefined} \cup {Arr(Turns(n)) : n \in 0..MaxHistory}

\* Identifiers a caller may send: absent, or one the store has or may allocate.
CaseIdValues == {Undefined} \cup {Id(n) : n \in 1..MaxRequests}

\* A request body: text that does not parse to an object, or the parsed object.
Malformed == [t |-> "malformed"]
Bodies(v) ==
    {Malformed} \cup
    {[t |-> "object", question |-> q, history |-> h, caseId |-> c] :
        q \in QuestionValues,
        h \in (IF HasHistory(v) THEN HistoryValues ELSE {Undefined}),
        c \in (IF TracksCase(v) THEN CaseIdValues ELSE {Undefined})}

\* ------------------------------------------------------- provider results
Threw == [t |-> "threw", message |-> "provider unavailable"]
Unparsable == [t |-> "unparsable"]

RewriteTexts == {<<" ", "manager", "fired", "me", " ">>}
KeywordTexts == {<<"LRA", "s188">>}
AnswerTexts == {<<"answer">>}

Chunk == [id |-> 7, content |-> <<"schedule8">>]
ChunkLists == {<<>>, <<Chunk>>}
SearchErrors == {[message |-> "rpc failed"]}

\* The embedding provider is a function of the text it is given.
Embedding(text) == [embeddingOf |-> text]

\* The case fields the extraction prompt lists.
RequiredFields ==
    {"client_name", "contact_info", "employer_name", "incident_date",
     "incident_description", "hearing_held", "case_merit_assessed"}
IntakeFields == RequiredFields \ {"case_merit_assessed"}

KnownValue == Str(<<"known">>)
FactsAllNull ==
    [k \in RequiredFields |-> IF k = "case_merit_assessed" THEN False ELSE Null]
FactsComplete ==
    [k \in RequiredFields |-> IF k = "case_merit_assessed" THEN False ELSE KnownValue]
FactsNameOnly ==
    [k \in RequiredFields |->
        CASE k = "case_merit_assessed" -> False
          [] k = "client_name" -> KnownValue
          [] OTHER -> Null]
FactsOmitted == [k \in RequiredFields \ {"hearing_held"} |-> FactsComplete[k]]
FactsEmpty ==
    [k \in RequiredFields |-> IF k = "contact_info" THEN Str(<<>>) ELSE FactsComplete[k]]

\* Objects the extraction model's JSON text may parse to.
ExtractorOutputs ==
    {FactsAllNull, FactsNameOnly, FactsComplete, FactsOmitted, FactsEmpty}

\* obj[key] of a JavaScript object: undefined for a key it does not have.
Field(obj, k) == IF k \in DOMAIN obj THEN obj[k] ELSE Undefined

\* ------------------------------------------------------ the handlers' code
\* The question check as a test for undefined only.
QuestionMissingOnlyUndefined(q) == q.t = "undefined"

\* if (!question) return 400
QuestionMissing(q) == ~Truthy(q)

\* The upsert always taking the insert branch.
UsesUpdateNever(activeCaseId) == FALSE

\* if (activeCaseId) update ... else insert
UsesUpdate(activeCaseId) == Truthy(activeCaseId)

\* The history check without the length test.
HistoryNonEmptyNoLength(h) == Truthy(h)

\* history && history.length > 0
HistoryNonEmpty(h) == Truthy(h) /\ Len(h.v) > 0

\* history || []
HistoryOrEmpty(h) == IF Truthy(h) THEN h.v ELSE <<>>

UpperCase(role) == IF role = "user" THEN "USER" ELSE "ASSISTANT"

\* history.map(msg => `${msg.role.toUpperCase()}: ${msg.content}`).join("\n")
HistoryText(h) ==
    [i \in 1..Len(h.v) |-> [role |-> UpperCase(h.v[i].role), content |-> h.v[i].content]]

\* [...(history || []), { role: 'user', content: question }]
HistoryForExtraction(h, q) == Append(HistoryOrEmpty(h), [role |-> "user", content |-> q])

\* chunks.map(c => `SOURCE (ID: ${c.id}):\n${c.content}`).join("\n\n---\n\n")
ContextText(chunks) ==
    [i \in 1..Len(chunks) |-> [source |-> chunks[i].id, content |-> chunks[i].content]]

\* The combined query built without the separating space.
CombinedSearchQueryNoSpace(base, keywords) == Str(base.v \o keywords.v)

\* `${standaloneQuestion} ${legalKeywords}`
CombinedSearchQuery(base, keywords) == Str(Interpolate(base.v, keywords.v))

\* The question the expansion prompt and the combined query are built on.
ExpansionBase(v, l) == IF v = "ask_v3" THEN l.question ELSE l.standaloneQuestion

\* The raw question embedded in every version.
EmbedTextRawQuestion(v, l) == l.question

\* The argument of embedContent.
EmbedText(v, l) ==
    CASE v \in {"ask_v1", "ask_v2"} -> l.question
      [] v = "ask_case" -> l.standaloneQuestion
      [] OTHER -> l.combinedSearchQuery

\* query_text of hybrid_search.
QueryText(v, l) ==
    CASE v \in {"ask_v1", "ask_v2"} -> l.question
      [] v = "ask_case" -> l.standaloneQuestion
      [] OTHER -> l.combinedSearchQuery

\* if (searchError) throw ...
SearchFailed(result) == result.error # Null

SearchErrorMessage(v, err) ==
    IF v = "ask_v1" THEN "Failed to search database."
    ELSE "Database Error: " \o err.message

\* Object.keys(caseFacts).filter(key => caseFacts[key] === null && key !== 'case_merit_assessed')
MissingFields(caseFacts) ==
    {k \in DOMAIN caseFacts : caseFacts[k] = Null /\ k # "case_merit_assessed"}

\* The stage test with >= in place of >.
StageOfOffByOne(missing) ==
    IF Cardinality(missing) >= 0 THEN "STAGE 1: INTAKE CHECKLIST"
    ELSE "STAGE 2: MERIT ASSESSMENT & PITCH"

Intake == "STAGE 1: INTAKE CHECKLIST"
Assessment == "STAGE 2: MERIT ASSESSMENT & PITCH"
\* missingFields.length > 0 ? "STAGE 1: ..." : "STAGE 2: ..."
StageOf(missing) == IF Cardinality(missing) > 0 THEN Intake ELSE Assessment

\* ...(x && { key: x }): the key is set only when x is truthy
SpreadIf(key, x) == IF Truthy(x) THEN (key :> x) ELSE [k \in {} |-> Null]

Timestamp(now) == [t |-> "time", v |-> now]
GatheringFacts == Str(<<"Gathering facts...">>)

DbPayload(caseFacts, now) ==
    [updated_at |-> Timestamp(now),
     issue_summary |-> OrElse(Field(caseFacts, "incident_description"), GatheringFacts),
     case_facts |-> caseFacts]
    @@ SpreadIf("client_name", Field(caseFacts, "client_name"))
    @@ SpreadIf("contact_info", Field(caseFacts, "contact_info"))

\* --------------------------------------------------------- the Case Store
\* The columns of table 'cases' the handler writes; id is the key.
Columns == {"client_name", "contact_info", "issue_summary", "case_facts", "updated_at"}

\* insert(payload): the new row; a column the payload lacks is null.
NewRow(payload) == [c \in Columns |-> IF c \in DOMAIN payload THEN payload[c] ELSE Null]

\* update(payload) on one row: the payload's columns are overwritten.
UpdatedRow(row, payload) ==
    [c \in DOMAIN row |-> IF c \in DOMAIN payload THEN payload[c] ELSE row[c]]

\* The update without its .eq('id', id) filter.
SelectedAll(store, id) == DOMAIN store

\* .update(payload).eq('id', id): the rows the filter selects.
Selected(store, id) == {k \in DOMAIN store : k = id.v}

ApplyUpdate(store, payload, id) ==
    [k \in DOMAIN store |->
        IF k \in Selected(store, id) THEN UpdatedRow(store[k], payload) ELSE store[k]]

\* The identifier the store allocates to an inserted row.
NewId(store) == Cardinality(DOMAIN store) + 1

ApplyInsert(store, payload) ==
    [k \in DOMAIN store \cup {NewId(store)} |->
        IF k \in DOMAIN store THEN store[k] ELSE NewRow(payload)]

\* ---------------------------------------------------------------- responses
Json(obj) == [t |-> "json", v |-> obj]
NoResponse == [statusCode |-> 0, body |-> [t |-> "none"]]
MethodNotAllowed == [statusCode |-> 405, body |-> [t |-> "text", v |-> "Method Not Allowed"]]

QuestionRequired(v) ==
    [statusCode |-> 400,
     body |-> Json([error |-> IF v \in {"ask_v1", "ask_v2"} THEN "Question is required"
                              ELSE "Question required"])]

\* The catch block answering with the default status.
ErrorResponseStatusOk(v, message) == [statusCode |-> 200, body |-> Json([error |-> message])]

\* The catch block.
ErrorResponse(v, message) ==
    [statusCode |-> 500,
     body |-> IF v = "ask_v1"
              THEN Json([error |-> "Internal Server Error", details |-> message])
              ELSE Json([error |-> message])]

FinalJson == [conversation |-> <<"reply">>, legal_reasoning |-> <<"note">>]

\* The 200 response of each version.
Success(v, l, out) ==
    [statusCode |-> 200,
     body |-> CASE ~JsonAnswer(v) -> Json([answer |-> out, sources |-> l.chunks])
                [] v = "ask_case" -> Json(("caseId" :> l.activeCaseId) @@ out)
                [] OTHER -> Json(out)]

\* ------------------------------------------------------------------- state
VARIABLES
    event,      \* per slot: the invocation's event (handler version, method, body)
    pc,         \* per slot: "idle", the await the handler is suspended at, or "done"
    loc,        \* per slot: the handler's local variables
    calls,      \* per slot: the provider and Case Store calls made, in order
    resp,       \* per slot: the response returned
    before,     \* per slot: the Case Store as it was when the handler was invoked
    cases,      \* the Case Store: table 'cases', id -> row
    clock,      \* the wall clock read by new Date()
    received    \* invocations so far

vars == <<event, pc, loc, calls, resp, before, cases, clock, received>>

Slots == 1..NumSlots
EmptyStore == [k \in {} |-> Null]
NoEvent == [variant |-> "none", httpMethod |-> "none", body |-> Malformed]

NoLocals ==
    [question |-> Undefined, history |-> Undefined, caseId |-> Undefined,
     standaloneQuestion |-> Undefined, legalKeywords |-> Undefined,
     combinedSearchQuery |-> Undefined, vector |-> Undefined, chunks |-> Undefined,
     contextText |-> Undefined, caseFacts |-> Undefined, activeCaseId |-> Undefined,
     dbPayload |-> Undefined, missingFields |-> Undefined]

Init ==
    /\ event = [r \in Slots |-> NoEvent]
    /\ pc = [r \in Slots |-> "idle"]
    /\ loc = [r \in Slots |-> NoLocals]
    /\ calls = [r \in Slots |-> <<>>]
    /\ resp = [r \in Slots |-> NoResponse]
    /\ before = [r \in Slots |-> EmptyStore]
    /\ cases = EmptyStore
    /\ clock = 0
    /\ received = 0

\* ------------------------------------------------------------- the calls
Call(api, stage, arg) == [api |-> api, stage |-> stage, arg |-> arg, outcome |-> "pending"]

RewriteCall(v, l) ==
    Call("generateContent", "rewrite",
         [question |-> l.question, historyText |-> HistoryText(l.history)])

ExpandCall(v, l) == Call("generateContent", "expand", [query |-> ExpansionBase(v, l)])

EmbedCall(v, l) == Call("embedContent", "embed", EmbedText(v, l))

SearchCall(v, l) ==
    Call("rpc", "search",
         [query_text |-> QueryText(v, l), query_embedding |-> l.vector,
          match_count |-> MatchCount(v), full_text_weight |-> FullTextWeight,
          semantic_weight |-> SemanticWeight, rrf_k |-> RrfK])

ExtractCall(v, l) ==
    Call("generateContent", "extract",
         [history |-> HistoryForExtraction(l.history, l.question)])

UpdateCall(l) == Call("update", "persist", [payload |-> l.dbPayload, id |-> l.activeCaseId])

InsertCall(l) == Call("insert", "persist", [payload |-> l.dbPayload])

GenerateCall(v, l) ==
    Call("generateContent", "generate",
         CASE v = "ask_case" ->
                [stage |-> StageOf(l.missingFields), caseFacts |-> l.caseFacts,
                 missingFields |-> l.missingFields, contextText |-> l.contextText,
                 question |-> l.question]
           [] v \in {"part_000", "part_001"} ->
                [contextText |-> l.contextText, history |-> HistoryOrEmpty(l.history),
                 question |-> l.question, standaloneQuestion |-> l.standaloneQuestion]
           [] OTHER -> [contextText |-> l.contextText, question |-> l.question])

\* The outcome of the call that has just returned.
Settle(cs, outcome) == IF cs = <<>> THEN cs ELSE [cs EXCEPT ![Len(cs)].outcome = outcome]

\* The handler runs on to its next await: the call is issued.
Continue(r, l, outcome, call, label) ==
    /\ loc' = [loc EXCEPT ![r] = l]
    /\ calls' = [calls EXCEPT ![r] = Append(Settle(@, outcome), call)]
    /\ pc' = [pc EXCEPT ![r] = label]
    /\ resp' = resp

\* The handler returns a response.
Reply(r, l, outcome, response) ==
    /\ loc' = [loc EXCEPT ![r] = l]
    /\ calls' = [calls EXCEPT ![r] = Settle(@, outcome)]
    /\ pc' = [pc EXCEPT ![r] = "done"]
    /\ resp' = [resp EXCEPT ![r] = response]

\* ------------------------------------------------------------- the actions
\* After the contextualization step: expansion where the version has it, else embed.
AfterRewrite(r, v, l, outcome) ==
    IF HasExpander(v)
    THEN Continue(r, l, outcome, ExpandCall(v, l), "expand")
    ELSE Continue(r, l, outcome, EmbedCall(v, l), "embed")

\* The handler from its entry to its first await or early return.
Start(r, v, m, b) ==
    IF m # "POST" THEN Reply(r, NoLocals, "none", MethodNotAllowed)
    ELSE IF b.t # "object"
    THEN Reply(r, NoLocals, "none", ErrorResponse(v, "Unexpected token in JSON"))
    ELSE LET l0 == [NoLocals EXCEPT
                       !.question = b.question,
                       !.history = IF HasHistory(v) THEN b.history ELSE Undefined,
                       !.caseId = IF TracksCase(v) THEN b.caseId ELSE Undefined]
             l1 == IF HasHistory(v) THEN [l0 EXCEPT !.standaloneQuestion = b.question]
                   ELSE l0
         IN  IF QuestionMissing(b.question) THEN Reply(r, l0, "none", QuestionRequired(v))
             ELSE IF HasHistory(v) /\ HistoryNonEmpty(l1.history)
             THEN Continue(r, l1, "none", RewriteCall(v, l1), "rewrite")
             ELSE AfterRewrite(r, v, l1, "none")

Invoke(r) ==
    /\ pc[r] = "idle"
    /\ received < MaxRequests
    /\ \E v \in Variants, m \in Methods : \E b \in Bodies(v) :
        /\ event' = [event EXCEPT ![r] = [variant |-> v, httpMethod |-> m, body |-> b]]
        /\ Start(r, v, m, b)
    /\ before' = [before EXCEPT ![r] = cases]
    /\ received' = received + 1
    /\ UNCHANGED <<cases, clock>>

\* await model.generateContent(rewritePrompt) returns or throws.
RewriteReturns(r) ==
    /\ pc[r] = "rewrite"
    /\ \E out \in {Threw} \cup {Str(t) : t \in RewriteTexts} :
        IF out.t = "threw"
        THEN Reply(r, loc[r], "error", ErrorResponse(event[r].variant, out.message))
        ELSE AfterRewrite(r, event[r].variant,
                          [loc[r] EXCEPT !.standaloneQuestion = Str(Trim(out.v))], "ok")
    /\ UNCHANGED <<event, before, cases, clock, received>>

\* await model.generateContent(expansionPrompt) returns or throws.
ExpandReturns(r) ==
    /\ pc[r] = "expand"
    /\ \E out \in {Threw} \cup {Str(t) : t \in KeywordTexts} :
        LET v == event[r].variant
            l == [loc[r] EXCEPT
                     !.legalKeywords = out,
                     !.combinedSearchQuery =
                         CombinedSearchQuery(ExpansionBase(v, loc[r]), out)]
        IN  IF out.t = "threw"
            THEN Reply(r, loc[r], "error", ErrorResponse(v, out.message))
            ELSE Continue(r, l, "ok", EmbedCall(v, l), "embed")
    /\ UNCHANGED <<event, before, cases, clock, received>>

\* await embeddingModel.embedContent(text) returns or throws.
EmbedReturns(r) ==
    /\ pc[r] = "embed"
    /\ \E ok \in BOOLEAN :
        LET v == event[r].variant
            text == calls[r][Len(calls[r])].arg
            l == [loc[r] EXCEPT !.vector = Embedding(text)]
        IN  IF ~ok
            THEN Reply(r, loc[r], "error", ErrorResponse(v, Threw.message))
            ELSE Continue(r, l, "ok", SearchCall(v, l), "search")
    /\ UNCHANGED <<event, before, cases, clock, received>>

SearchResults ==
    {[data |-> Arr(c), error |-> Null] : c \in ChunkLists}
    \cup {[data |-> Null, error |-> e] : e \in SearchErrors}

\* await supabase.rpc('hybrid_search', ...) returns { data, error }; chunks.map
\* throws on null data.
SearchReturns(r) ==
    /\ pc[r] = "search"
    /\ \E result \in SearchResults :
        LET v == event[r].variant
        IN  IF SearchFailed(result)
            THEN Reply(r, loc[r], "error",
                       ErrorResponse(v, SearchErrorMessage(v, result.error)))
            ELSE IF result.data.t # "array"
            THEN Reply(r, loc[r], "error",
                       ErrorResponse(v, "Cannot read properties of null"))
            ELSE LET l == [loc[r] EXCEPT
                              !.chunks = result.data.v,
                              !.contextText = ContextText(result.data.v)]
                 IN  IF TracksCase(v)
                     THEN Continue(r, l, "ok", ExtractCall(v, l), "extract")
                     ELSE Continue(r, l, "ok", GenerateCall(v, l), "generate")
    /\ UNCHANGED <<event, before, cases, clock, received>>

\* await jsonModel.generateContent(extractionPrompt), JSON.parse, the payload,
\* and the Case Store call issued.
ExtractReturns(r) ==
    /\ pc[r] = "extract"
    /\ \E out \in {Threw, Unparsable} \cup {Json(f) : f \in ExtractorOutputs} :
        LET v == event[r].variant
        IN  CASE out.t = "threw" ->
                    /\ Reply(r, loc[r], "error", ErrorResponse(v, out.message))
                    /\ clock' = clock
              [] out.t = "unparsable" ->
                    /\ Reply(r, loc[r], "parse_error",
                             ErrorResponse(v, "Unexpected token in JSON"))
                    /\ clock' = clock
              [] OTHER ->
                    LET l == [loc[r] EXCEPT
                                 !.caseFacts = out.v,
                                 !.activeCaseId = loc[r].caseId,
                                 !.dbPayload = DbPayload(out.v, clock)]
                    IN  /\ clock' = clock + 1
                        /\ IF UsesUpdate(l.activeCaseId)
                           THEN Continue(r, l, "ok", UpdateCall(l), "update")
                           ELSE Continue(r, l, "ok", InsertCall(l), "insert")
    /\ UNCHANGED <<event, before, cases, received>>

\* The code between the Case Store call and the final generation call.
WithMissingFields(l) == [l EXCEPT !.missingFields = MissingFields(l.caseFacts)]

\* await supabase.table('cases').update(dbPayload).eq('id', activeCaseId):
\* the result, error included, is not looked at.
UpdateReturns(r) ==
    /\ pc[r] = "update"
    /\ \E ok \in BOOLEAN :
        LET v == event[r].variant
            l == WithMissingFields(loc[r])
        IN  /\ cases' = IF ok THEN ApplyUpdate(cases, loc[r].dbPayload, loc[r].activeCaseId)
                        ELSE cases
            /\ Continue(r, l, IF ok THEN "ok" ELSE "error", GenerateCall(v, l), "generate")
    /\ UNCHANGED <<event, before, clock, received>>

\* const { data: newCase } = await ...insert(dbPayload).select().single();
\* activeCaseId = newCase.id throws on the null data of a failed insert.
InsertReturns(r) ==
    /\ pc[r] = "insert"
    /\ \E ok \in BOOLEAN :
        LET v == event[r].variant
            l == WithMissingFields([loc[r] EXCEPT !.activeCaseId = Id(NewId(cases))])
        IN  IF ok
            THEN /\ cases' = ApplyInsert(cases, loc[r].dbPayload)
                 /\ Continue(r, l, "ok", GenerateCall(v, l), "generate")
            ELSE /\ cases' = cases
                 /\ Reply(r, loc[r], "error",
                          ErrorResponse(v, "Cannot read properties of null"))
    /\ UNCHANGED <<event, before, clock, received>>

GenerateResults(v) ==
    IF JsonAnswer(v) THEN {Threw, Unparsable, Json(FinalJson)}
    ELSE {Threw} \cup {Str(t) : t \in AnswerTexts}

\* The final generateContent returns or throws; JSON.parse in the JSON versions.
GenerateReturns(r) ==
    /\ pc[r] = "generate"
    /\ \E out \in GenerateResults(event[r].variant) :
        LET v == event[r].variant
        IN  CASE out.t = "threw" ->
                    Reply(r, loc[r], "error", ErrorResponse(v, out.message))
              [] out.t = "unparsable" ->
                    Reply(r, loc[r], "parse_error",
                          ErrorResponse(v, "Unexpected token in JSON"))
              [] OTHER -> Reply(r, loc[r], "ok", Success(v, loc[r], out.v))
    /\ UNCHANGED <<event, before, cases, clock, received>>

\* The response has gone out; the slot is free for the next invocation.
Respond(r) ==
    /\ pc[r] = "done"
    /\ event' = [event EXCEPT ![r] = NoEvent]
    /\ pc' = [pc EXCEPT ![r] = "idle"]
    /\ loc' = [loc EXCEPT ![r] = NoLocals]
    /\ calls' = [calls EXCEPT ![r] = <<>>]
    /\ resp' = [resp EXCEPT ![r] = NoResponse]
    /\ before' = [before EXCEPT ![r] = EmptyStore]
    /\ UNCHANGED <<cases, clock, received>>

\* ------------------------------------------------- the case-listing handler
NoBody == [t |-> "none"]

\* .select('*').order('updated_at', { ascending: false })
RECURSIVE OrderedByUpdate(_, _)
OrderedByUpdate(store, ids) ==
    IF ids = {} THEN <<>>
    ELSE LET top == CHOOSE k \in ids :
                        \A j \in ids : store[j].updated_at.v <= store[k].updated_at.v
         IN  <<("id" :> Id(top)) @@ store[top]>> \o OrderedByUpdate(store, ids \ {top})

SelectCall == Call("select", "select", [order |-> "updated_at", ascending |-> FALSE])

\* get_cases.js from its entry to its await or early return.
InvokeGetCases(r) ==
    /\ pc[r] = "idle"
    /\ received < MaxRequests
    /\ \E m \in Methods :
        /\ event' = [event EXCEPT ![r] = [variant |-> "get_cases", httpMethod |-> m,
                                          body |-> NoBody]]
        /\ IF m # "GET" THEN Reply(r, NoLocals, "none", MethodNotAllowed)
           ELSE Continue(r, NoLocals, "none", SelectCall, "select")
    /\ before' = [before EXCEPT ![r] = cases]
    /\ received' = received + 1
    /\ UNCHANGED <<cases, clock>>

\* await supabase.table('cases').select('*').order(...) returns { data, error }.
SelectReturns(r) ==
    /\ pc[r] = "select"
    /\ \E ok \in BOOLEAN :
        IF ok
        THEN Reply(r, loc[r], "ok",
                   [statusCode |-> 200,
                    body |-> Json(Arr(OrderedByUpdate(cases, DOMAIN cases)))])
        ELSE Reply(r, loc[r], "error", ErrorResponse("get_cases", "select failed"))
    /\ UNCHANGED <<event, before, cases, clock, received>>

\* One invocation at a time, every handler version.
Next ==
    \E r \in {1} :
        \/ Invoke(r)
        \/ RewriteReturns(r)
        \/ ExpandReturns(r)
        \/ EmbedReturns(r)
        \/ SearchReturns(r)
        \/ ExtractReturns(r)
        \/ UpdateReturns(r)
        \/ InsertReturns(r)
        \/ GenerateReturns(r)
        \/ InvokeGetCases(r)
        \/ SelectReturns(r)
        \/ Respond(r)

Spec == Init /\ [][Next]_vars

\* Concurrent invocations of the case-tracking handler, in a deployment whose
\* Case Store already holds the records of two earlier conversations: well-formed
\* POST requests, without a case identifier or with the identifier of a record.
SeededStore ==
    ApplyInsert(ApplyInsert(EmptyStore, DbPayload(FactsNameOnly, 0)),
                DbPayload(FactsAllNull, 1))

InitConc ==
    /\ event = [r \in Slots |-> NoEvent]
    /\ pc = [r \in Slots |-> "idle"]
    /\ loc = [r \in Slots |-> NoLocals]
    /\ calls = [r \in Slots |-> <<>>]
    /\ resp = [r \in Slots |-> NoResponse]
    /\ before = [r \in Slots |-> EmptyStore]
    /\ cases = SeededStore
    /\ clock = 2
    /\ received = 0

ConcurrentBodies ==
    {[t |-> "object", question |-> Str(QuestionText), history |-> Undefined, caseId |-> c] :
        c \in {Undefined} \cup {Id(k) : k \in DOMAIN SeededStore}}

InvokeConcurrently(r) ==
    /\ pc[r] = "idle"
    /\ \E b \in ConcurrentBodies :
        /\ event' = [event EXCEPT ![r] = [variant |-> "ask_case", httpMethod |-> "POST",
                                          body |-> b]]
        /\ Start(r, "ask_case", "POST", b)
    /\ before' = [before EXCEPT ![r] = cases]
    /\ received' = received + 1
    /\ UNCHANGED <<cases, clock>>

NextConc ==
    \E r \in Slots :
        \/ InvokeConcurrently(r)
        \/ EmbedReturns(r)
        \/ SearchReturns(r)
        \/ ExtractReturns(r)
        \/ UpdateReturns(r)
        \/ InsertReturns(r)
        \/ GenerateReturns(r)

SpecConc == InitConc /\ [][NextConc]_vars

\* ============================================================== properties
Done(r) == pc[r] = "done"
Variant(r) == event[r].variant

\* The request passed the method check and its body parsed to an object.
WellFormed(r) == event[r].httpMethod = "POST" /\ event[r].body.t = "object"

HasErrorField(response) ==
    response.body.t = "json" /\ "error" \in DOMAIN response.body.v

\* A value other than null or undefined.
IsKnown(x) == x.t \notin {"null", "undefined"}

\* A value a caller would read as information: not null, undefined or "".
IsPopulated(x) == IsKnown(x) /\ (x.t = "string" => x.v # <<>>)

\* The request is on the case-tracking handler and names record k.
Names(r, k) ==
    /\ Variant(r) = "ask_case"
    /\ WellFormed(r)
    /\ event[r].body.caseId = Id(k)

\* C1: a request that supplies the caseId of an existing record never turns a
\* case field of that record from known (non-null) into unknown.
C1_NeverDowngrades ==
    \A r \in {1} : \A k \in DOMAIN before[r] :
        Names(r, k) =>
            \A f \in RequiredFields :
                IsKnown(Field(before[r][k].case_facts, f))
                    => IsKnown(Field(cases[k].case_facts, f))

\* The standalone question of a request: the rewriter's output where the version
\* has a rewriter, the question itself where it has none.
StandaloneOf(r) ==
    IF HasHistory(Variant(r)) THEN loc[r].standaloneQuestion ELSE loc[r].question

SearchCalls(r) == {i \in DOMAIN calls[r] : calls[r][i].stage = "search"}

\* The search call at position i, and the embed call before it, carry the
\* standalone question, one space, then the expansion keywords.
SearchesCombined(r, i) ==
    /\ loc[r].legalKeywords.t = "string"
    /\ calls[r][i].arg.query_text
         = Str(StandaloneOf(r).v \o <<" ">> \o loc[r].legalKeywords.v)
    /\ calls[r][i - 1].arg = calls[r][i].arg.query_text

\* C2 as stated: in every handler version the query text sent to hybrid_search,
\* and the text embedded, is the standalone question, a space, the keywords.
C2_AlwaysCombined ==
    \A r \in {1} : \A i \in SearchCalls(r) : SearchesCombined(r, i)

\* C2 as amended: that holds in the versions that have a Query Expander; the
\* versions without one search and embed the standalone question alone.
C2_CombinedWhereExpanded ==
    \A r \in {1} : \A i \in SearchCalls(r) :
        IF HasExpander(Variant(r))
        THEN SearchesCombined(r, i)
        ELSE /\ calls[r][i].arg.query_text = StandaloneOf(r)
             /\ calls[r][i - 1].arg = StandaloneOf(r)

C2_Witness ==
    \E r \in {1} :
        /\ pc[r] = "search"
        /\ Variant(r) = "part_001"
        /\ HistoryNonEmpty(loc[r].history)
        /\ loc[r].standaloneQuestion # loc[r].question

GenerateCalls(r) == {i \in DOMAIN calls[r] : calls[r][i].stage = "generate"}

\* C3: the stage in the final prompt is Assessment when every required field
\* but the merits flag is known, and Intake when any of them is unknown, a
\* field the extractor omitted or left empty included.
C3_StageFromCompleteness ==
    \A r \in {1} : \A i \in GenerateCalls(r) :
        Variant(r) = "ask_case" =>
            calls[r][i].arg.stage =
                IF \A f \in IntakeFields : IsPopulated(Field(loc[r].caseFacts, f))
                THEN Assessment ELSE Intake

Failed(call) == call.outcome \in {"error", "parse_error"}

\* C4 as stated: a call that fails is the last call of its request (nothing is
\* retried, no later stage runs) and the response is a failure, never a 200.
C4_FailureAborts ==
    \A r \in {1} : \A i \in DOMAIN calls[r] :
        Failed(calls[r][i]) =>
            /\ i = Len(calls[r])
            /\ Done(r)
            /\ resp[r].statusCode # 200

RewriteCalls(r) == {i \in DOMAIN calls[r] : calls[r][i].stage = "rewrite"}

\* The history of the request body is absent or has no turn.
EmptyHistory(r) ==
    \/ event[r].body.history.t # "array"
    \/ Len(event[r].body.history.v) = 0

\* C5: a request with absent or empty history makes no rewrite call and its
\* standalone question is the input question unchanged; a rewrite call is made
\* only by a request whose history has at least one turn.
C5_EmptyHistoryNoRewrite ==
    \A r \in {1} :
        /\ (WellFormed(r) /\ HasHistory(Variant(r))
              /\ Truthy(event[r].body.question) /\ EmptyHistory(r))
             => /\ RewriteCalls(r) = {}
                /\ loc[r].standaloneQuestion = event[r].body.question
        /\ RewriteCalls(r) # {}
             => /\ WellFormed(r)
                /\ event[r].body.history.t = "array"
                /\ Len(event[r].body.history.v) >= 1

C5_Witness ==
    \E r \in {1} :
        /\ Done(r) /\ resp[r].statusCode = 200
        /\ Variant(r) = "part_000"
        /\ event[r].body.history = Arr(<<>>)
        /\ loc[r].standaloneQuestion = Str(QuestionText)

\* C6: a search error ends the request: the failed search is its last call (no
\* extraction, no generation, no Case Store call follows), the Case Store is as
\* it was, and the response is a 500 whose body has an error field.
C6_SearchErrorFails ==
    \A r \in {1} : \A i \in SearchCalls(r) :
        calls[r][i].outcome = "error" =>
            /\ i = Len(calls[r])
            /\ Done(r)
            /\ resp[r].statusCode = 500
            /\ HasErrorField(resp[r])
            /\ cases = before[r]

C6_Witness ==
    \E r \in {1} : \E i \in SearchCalls(r) :
        /\ calls[r][i].outcome = "error"
        /\ Variant(r) = "ask_case"
        /\ before[r] # EmptyStore

\* C7: a 200 response of the case-tracking handler to a request without a case
\* identifier carries the identifier of the one record the request added, an
\* identifier no record had, and every other record is as it was; to a request
\* with an identifier it carries that identifier, no record was added and no
\* record but the one named has changed.
C7_IdentifierAllocation ==
    \A r \in {1} :
        (Done(r) /\ resp[r].statusCode = 200 /\ Variant(r) = "ask_case") =>
            LET sent == event[r].body.caseId
                got == resp[r].body.v.caseId
            IN  IF Truthy(sent)
                THEN /\ got = sent
                     /\ DOMAIN cases = DOMAIN before[r]
                     /\ \A k \in DOMAIN cases : k # sent.v => cases[k] = before[r][k]
                ELSE /\ got.t = "id"
                     /\ got.v \notin DOMAIN before[r]
                     /\ DOMAIN cases = DOMAIN before[r] \cup {got.v}
                     /\ \A k \in DOMAIN before[r] : cases[k] = before[r][k]

C7_Witness ==
    \E r \in {1} :
        /\ Done(r) /\ resp[r].statusCode = 200 /\ Variant(r) = "ask_case"
        /\ ~Truthy(event[r].body.caseId)
        /\ before[r] # EmptyStore
        /\ Cardinality(DOMAIN cases) = Cardinality(DOMAIN before[r]) + 1

StageOrder == <<"rewrite", "expand", "embed", "search", "extract", "persist", "generate">>
Rank(stage) == CHOOSE i \in DOMAIN StageOrder : StageOrder[i] = stage

\* The stages a handler version has.
StagesOf(v) ==
    {"embed", "search", "generate"}
    \cup (IF HasHistory(v) THEN {"rewrite"} ELSE {})
    \cup (IF HasExpander(v) THEN {"expand"} ELSE {})
    \cup (IF TracksCase(v) THEN {"extract", "persist"} ELSE {})

\* C8 as stated: the calls of a request are in the order rewrite, expand,
\* embed+search, extract, persist, generate (so none runs twice and the Case
\* Store write precedes the final generation), a call is made only after the
\* previous one completed successfully, and no stage the handler has is skipped
\* except the rewrite on empty history.
C8_StagesInOrder ==
    \A r \in {1} : \A i \in {n \in DOMAIN calls[r] : Variant(r) \in Variants} :
        /\ \A j \in DOMAIN calls[r] :
              i < j => Rank(calls[r][i].stage) < Rank(calls[r][j].stage)
        /\ i > 1 => calls[r][i - 1].outcome = "ok"
        /\ \A s \in StagesOf(Variant(r)) :
              Rank(s) < Rank(calls[r][i].stage)
                 => \/ \E j \in 1..(i - 1) : calls[r][j].stage = s
                    \/ s = "rewrite" /\ EmptyHistory(r)

\* C9: a POST request whose body parses but has no question, or an empty one,
\* ends at once with status 400 and an error body; whatever the method or the
\* body, a request without a question makes no provider or Case Store call and
\* leaves the Case Store as it was.
C9_MissingQuestion ==
    \A r \in {1} :
        /\ (WellFormed(r) /\ ~Truthy(event[r].body.question))
             => /\ Done(r)
                /\ resp[r].statusCode = 400
                /\ HasErrorField(resp[r])
        /\ (Variant(r) \in Variants
              /\ (event[r].body.t = "object" => ~Truthy(event[r].body.question)))
             => /\ calls[r] = <<>>
                /\ cases = before[r]

C9_Witness ==
    \E r \in {1} :
        /\ Done(r) /\ WellFormed(r) /\ Variant(r) = "ask_case"
        /\ event[r].body.question = Str(<<>>)
        /\ Truthy(event[r].body.caseId)
        /\ before[r] # EmptyStore

\* The requests whose Case Store call of the given kind succeeded on record k.
Wrote(api, k) ==
    {r \in Slots :
        /\ loc[r].activeCaseId = Id(k)
        /\ \E i \in DOMAIN calls[r] :
              calls[r][i].api = api /\ calls[r][i].outcome = "ok"}

\* The rows a record can end in when the payloads of the requests in rs are
\* applied to it one after another, in any order.
RECURSIVE Outcomes(_, _)
Outcomes(row, rs) ==
    IF rs = {} THEN {row}
    ELSE UNION {Outcomes(UpdatedRow(row, loc[r].dbPayload), rs \ {r}) : r \in rs}

\* C10: under any interleaving of concurrent requests, a record is in a state
\* that the requests written to its own identifier produce, applied in some
\* order, from the row it started as (the seeded row, or the row of the one
\* insert that created it); a record no request wrote to is unchanged, and each
\* request without an identifier gets a record of its own.
C10_NoInterference ==
    /\ \A k \in DOMAIN cases :
          IF k \in DOMAIN SeededStore
          THEN cases[k] \in Outcomes(SeededStore[k], Wrote("update", k))
          ELSE /\ Cardinality(Wrote("insert", k)) = 1
               /\ \A r \in Wrote("insert", k) :
                     cases[k] \in Outcomes(NewRow(loc[r].dbPayload), Wrote("update", k))
    /\ \A r \in Slots :
          (\E i \in DOMAIN calls[r] :
              calls[r][i].api = "insert" /\ calls[r][i].outcome = "ok")
            => /\ loc[r].activeCaseId.t = "id"
               /\ loc[r].activeCaseId.v \in DOMAIN cases \ DOMAIN SeededStore

C10_Witness ==
    \E r1, r2 \in Slots :
        /\ r1 # r2 /\ Done(r1) /\ Done(r2)
        /\ resp[r1].statusCode = 200 /\ resp[r2].statusCode = 200
        /\ \E k \in DOMAIN SeededStore :
              /\ {r1, r2} \subseteq Wrote("update", k)
              /\ loc[r1].caseFacts # loc[r2].caseFacts
              /\ cases[k].case_facts = loc[r1].caseFacts
              /\ \E j \in DOMAIN SeededStore : j # k /\ cases[j] = SeededStore[j]

\* The method a handler accepts.
ExpectedMethod(v) == IF v = "get_cases" THEN "GET" ELSE "POST"

\* The failure class of a request, read off its input: the status the
\* taxonomy gives it when it fails.
FailureClass(r) ==
    CASE event[r].httpMethod # ExpectedMethod(Variant(r)) -> 405
      [] Variant(r) \in Variants /\ event[r].body.t # "object" -> 400
      [] Variant(r) \in Variants /\ ~Truthy(event[r].body.question) -> 400
      [] OTHER -> 500

\* C11 as stated: every failure response is a JSON object with an error field
\* and its status is 405 for a wrong method, 400 for a missing question or a
\* malformed body, 500 for a downstream or parse failure.
C11_FailureResponses ==
    \A r \in {1} :
        (Done(r) /\ resp[r].statusCode # 200) =>
            /\ HasErrorField(resp[r])
            /\ resp[r].statusCode = FailureClass(r)

PersistCalls(r) == {i \in DOMAIN calls[r] : calls[r][i].stage = "persist"}

\* C12 as stated: the Case Record handed to the Case Store and to the Response
\* Generator has exactly the required fields, none omitted and none added.
C12_ExactFieldSet ==
    \A r \in {1} :
        /\ \A i \in PersistCalls(r) :
              DOMAIN calls[r][i].arg.payload.case_facts = RequiredFields
        /\ \A i \in GenerateCalls(r) :
              Variant(r) = "ask_case" => DOMAIN calls[r][i].arg.caseFacts = RequiredFields

\* The record k was last written with every intake field non-null: the turn
\* that wrote it was in Assessment.
StoredComplete(store, k) ==
    \A f \in IntakeFields : Field(store[k].case_facts, f) # Null

\* C13: the stage of a turn is Intake exactly when that turn's extraction has a
\* null intake field, whatever the persisted record of the case holds; so a
\* case whose last turn was in Assessment is in Intake again on such a turn.
C13_StageNotSticky ==
    \A r \in {1} : \A i \in GenerateCalls(r) :
        Variant(r) = "ask_case" =>
            (calls[r][i].arg.stage = Intake
                <=> \E f \in IntakeFields : Field(loc[r].caseFacts, f) = Null)

C13_Witness ==
    \E r \in {1} : \E i \in GenerateCalls(r) : \E k \in DOMAIN before[r] :
        /\ Names(r, k)
        /\ StoredComplete(before[r], k)
        /\ calls[r][i].arg.stage = Intake
        /\ calls[r][i - 1].api = "update" /\ calls[r][i - 1].outcome = "ok"

\* C14: every hybrid_search call carries a positive match_count, the weights
\* 1.0 and 2.0 and rrf_k 50, and its embedding is the embedding of its query_text.
C14_SearchParameters ==
    \A r \in {1} : \A i \in SearchCalls(r) :
        LET arg == calls[r][i].arg
        IN  /\ arg.match_count > 0
            /\ arg.full_text_weight = 1
            /\ arg.semantic_weight = 2
            /\ arg.rrf_k = 50
            /\ arg.query_embedding = Embedding(arg.query_text)

C14_Witness ==
    \E r \in {1} : \E i \in SearchCalls(r) :
        /\ Variant(r) = "ask_case"
        /\ HistoryNonEmpty(loc[r].history)
        /\ calls[r][i].arg.query_text # loc[r].question
        /\ calls[r][i].outcome = "ok"

\* C15 as stated: the caseId of a 200 response of the case-tracking handler is
\* the identifier of a record in the Case Store whose stored facts are the Case
\* Record extracted in that request.
C15_ReturnedIdIsStored ==
    \A r \in {1} :
        (Done(r) /\ resp[r].statusCode = 200 /\ Variant(r) = "ask_case") =>
            LET got == resp[r].body.v.caseId
            IN  /\ got.t = "id"
                /\ got.v \in DOMAIN cases
                /\ cases[got.v].case_facts = loc[r].caseFacts

\* C16 as stated: a request to the case-tracking handler that ends in a failure
\* response leaves the Case Store as it was when the request arrived.
C16_FailureLeavesStore ==
    \A r \in {1} :
        (Done(r) /\ resp[r].statusCode # 200 /\ Variant(r) = "ask_case")
            => cases = before[r]

====
